---- MODULE Spec2Model ----
(***************************************************************************)
(* retroarch-asset-server: the asset router (newServer), the virtual       *)
(* filesystem adapter (fileSystem.Open) behind http.FileServer, the        *)
(* reverse proxy (newReverseProxy) and the two process lifecycles          *)
(* (serveCommand.Run, windowsService.Execute).                             *)
(*                                                                         *)
(* Paths and response bodies are strings, handled character by character   *)
(* as the Go code handles them.                                            *)
(***************************************************************************)
EXTENDS Integers, Sequences, FiniteSets, TLC

VARIABLES
    mode,       \* "serve" (serveCommand.Run) or "service" (windowsService.Execute)
    args,       \* the command line the process was started with
    pc,         \* position of main / Execute
    cfg,        \* parsed options: listen, frontend, system, rom
    mux,        \* the handler mounted for each category by newServer
    srv,        \* the http.Server: "none", "built", "serving", "returned"
    inShutdown, \* server.Shutdown has been called
    lasErr,     \* what ListenAndServe returned
    outcome,    \* what Run / Execute returned and the process exit code
    elog,       \* kinds of errors written to the event log / stderr
    svcStatus,  \* last svc.Status sent by Execute
    ctxDone,    \* cancel() has been called
    disk,       \* the host filesystem under the local root
    resp,       \* the response written by the last request (NoResp otherwise)
    outbound    \* the outbound requests made on behalf of the last request

vars == <<mode, args, pc, cfg, mux, srv, inShutdown, lasErr, outcome, elog,
          svcStatus, ctxDone, disk, resp, outbound>>

lifeVars == <<mode, args, pc, cfg, mux, srv, inShutdown, lasErr, outcome, elog,
              svcStatus, ctxDone>>

-----------------------------------------------------------------------------
(* Bounds *)

MaxEntries == 2     \* entries present under the local root at any time

-----------------------------------------------------------------------------
(* Program constants *)

retroarchScheme == "http"
retroarchHostName == "buildbot.libretro.com"
retroarchPath == "/assets/"
defaultListen == ":5164"

Categories == {"frontend", "system", "rom"}

\* the pattern each category is mounted at, which is also fileSystem.Root
Prefix(c) ==
    CASE c = "frontend" -> "/frontend/"
      [] c = "system"   -> "/system/"
      [] c = "rom"      -> "/cores/"

-----------------------------------------------------------------------------
(* strings *)

CharAt(s, i) == SubSeq(s, i, i)

HasPrefix(s, p) == Len(s) >= Len(p) /\ SubSeq(s, 1, Len(p)) = p

HasSuffix(s, p) == Len(s) >= Len(p) /\ SubSeq(s, Len(s) - Len(p) + 1, Len(s)) = p

\* strings.LastIndex(s, "/") + 1
LastSlash(s) ==
    LET I == {i \in 1..Len(s) : CharAt(s, i) = "/"}
    IN  IF I = {} THEN 0 ELSE CHOOSE i \in I : \A j \in I : j <= i

\* path.Split
SplitOf(s) ==
    [dir  |-> SubSeq(s, 1, LastSlash(s)),
     base |-> SubSeq(s, LastSlash(s) + 1, Len(s))]

\* strings.Split(s, "/")
RECURSIVE Segments(_)
Segments(s) ==
    LET I == {i \in 1..Len(s) : CharAt(s, i) = "/"}
    IN  IF I = {} THEN <<s>>
        ELSE LET i == CHOOSE k \in I : \A j \in I : k <= j
             IN  <<SubSeq(s, 1, i - 1)>> \o Segments(SubSeq(s, i + 1, Len(s)))

\* the components that survive path.Clean of a rooted path: "" and "." are
\* dropped, ".." removes the component before it (and is dropped at the root)
RECURSIVE CleanStack(_, _)
CleanStack(segs, stack) ==
    IF segs = <<>> THEN stack
    ELSE LET h == Head(segs)
         IN  CleanStack(Tail(segs),
                 IF h = "" \/ h = "." THEN stack
                 ELSE IF h = ".." THEN
                        (IF stack = <<>> THEN stack
                         ELSE SubSeq(stack, 1, Len(stack) - 1))
                 ELSE Append(stack, h))

RECURSIVE JoinRooted(_)
JoinRooted(stack) ==
    IF stack = <<>> THEN ""
    ELSE "/" \o Head(stack) \o JoinRooted(Tail(stack))

\* the components of a rooted path once cleaned
StackOf(p) == CleanStack(Segments(p), <<>>)

\* path.Clean of a rooted path
CleanOf(p) ==
    LET st == StackOf(p)
    IN  IF st = <<>> THEN "/" ELSE JoinRooted(st)

\* path.Join: the non-empty elements joined by "/" and cleaned
RECURSIVE JoinElems(_)
JoinElems(elems) ==
    IF elems = <<>> THEN ""
    ELSE IF Head(elems) = "" THEN JoinElems(Tail(elems))
    ELSE Head(elems) \o "/" \o JoinElems(Tail(elems))

-----------------------------------------------------------------------------
(* The names in play: the request paths the model sends and the entries the  *)
(* local root may hold.                                                      *)

Suffixes == {"", ".index", ".index-dirs", "snes", "snes/", "snes/.index",
             "snes/.index-dirs", "nope", "nope/.index"}

\* the URL paths of the requests the model sends
RawPaths == {Prefix(c) \o x : c \in Categories, x \in Suffixes}
            \cup {"/", "/cores", "/other/snes", "/cores//snes/./.index"}

\* the URL paths of the CONNECT requests the model sends
ConnectPaths == {"/cores/snes", "/cores/../x", "/cores/../frontend/snes",
                 "/system/./.index", "/cores", "/other/snes"}

LocalDir == "/r"
SubDir == "/r/snes"

TopNames == {"snes", ".index", ".index-dirs"}
SubNames == {".index-dirs"}

TopNodes == {LocalDir \o "/" \o n : n \in TopNames}
SubNodes == {SubDir \o "/" \o n : n \in SubNames}
Nodes == {LocalDir} \cup TopNodes \cup SubNodes

-----------------------------------------------------------------------------
(* The path functions above, tabulated once over the strings the requests    *)
(* give rise to; a string outside the table is computed directly.            *)

KnownPaths ==
    LET names == {CleanOf(p) : p \in RawPaths \cup ConnectPaths}
        index == {n \o "/index.html" : n \in names}
        strip == {SubSeq(n, Len(Prefix(c)), Len(n)) :
                    n \in {m \in names \cup index : Len(m) >= 6}, c \in Categories}
        dirs  == {SplitOf(n).dir : n \in strip} \cup {".", ""}
        arg   == {"/" \o a : a \in strip \cup dirs}
        full  == {LocalDir \o "/" \o CleanOf(a) : a \in arg}
        join  == {JoinElems(<<LocalDir, dir, nm>>) : dir \in dirs,
                                                     nm \in TopNames \cup SubNames}
        all   == RawPaths \cup ConnectPaths \cup names \cup index \cup strip \cup dirs \cup arg
                 \cup full \cup {CleanOf(f) : f \in full}
                 \cup join \cup {CleanOf(j) : j \in join} \cup Nodes \cup {"/"}
    IN  all

PathTab ==
    [p \in KnownPaths |-> [clean |-> CleanOf(p), stack |-> StackOf(p), split |-> SplitOf(p)]]

PathInfo(tab, p) ==
    IF p \in DOMAIN tab THEN tab[p]
    ELSE [clean |-> CleanOf(p), stack |-> StackOf(p), split |-> SplitOf(p)]

\* path.Clean of a rooted path
Clean(p) == PathInfo(PathTab, p).clean

\* the components of a rooted path once cleaned
Components(p) == PathInfo(PathTab, p).stack

\* path.Split
PathSplit(p) == PathInfo(PathTab, p).split

-----------------------------------------------------------------------------
(* The host filesystem.  The local root is LocalDir; an entry is a regular   *)
(* file, a directory, a directory the server may not read, some other kind   *)
(* of node (socket, device), or a symbolic link: to a regular file, to a     *)
(* directory, to nothing (dangling) or to itself (loop).  The children of a  *)
(* link to a directory are the children of its target.                       *)

Kinds == {"file", "dir", "other", "linkfile", "linkdir", "dangling", "linkloop",
          "dirnoperm"}
AllKinds == Kinds \cup {"absent"}

Traversable == {"dir", "linkdir"}

\* the names an entry of directory p can have
EntryNames(p) ==
    IF p = LocalDir THEN TopNames ELSE IF p = SubDir THEN SubNames ELSE {}

KindAt(d, p) ==
    IF p \in Nodes THEN d[p] ELSE IF p = "/" THEN "dir" ELSE "absent"

\* the type Lstat reports, as Readdir's FileInfo carries it
LstatType(k) ==
    CASE k \in {"linkfile", "linkdir", "dangling", "linkloop"} -> "symlink"
      [] k = "file" -> "regular"
      [] k \in {"dir", "dirnoperm"} -> "dir"
      [] OTHER -> "other"

\* the type Stat reports once links are followed
StatType(k) ==
    CASE k \in {"file", "linkfile"} -> "regular"
      [] k \in {"dir", "linkdir", "dirnoperm"} -> "dir"
      [] OTHER -> "other"

\* name resolution of the components st[i..], below the directory cur
RECURSIVE WalkFrom(_, _, _, _)
WalkFrom(d, st, i, cur) ==
    IF i > Len(st) THEN [err |-> "ok", kind |-> KindAt(d, IF cur = "" THEN "/" ELSE cur)]
    ELSE LET node == cur \o "/" \o st[i]
             k == KindAt(d, node)
         IN  IF i = Len(st) THEN [err |-> "ok", kind |-> k]
             ELSE IF k \in Traversable THEN WalkFrom(d, st, i + 1, node)
             ELSE IF k = "dirnoperm" THEN [err |-> "EACCES", kind |-> k]
             ELSE IF k \in {"absent", "dangling"} THEN [err |-> "ENOENT", kind |-> k]
             ELSE IF k = "linkloop" THEN [err |-> "ELOOP", kind |-> k]
             ELSE [err |-> "ENOTDIR", kind |-> k]

\* the result of os.Stat for the resolution w of its path: links are followed
StatResult(w) ==
    IF w.err # "ok" THEN [err |-> w.err, typ |-> "none"]
    ELSE IF w.kind \in {"absent", "dangling"} THEN [err |-> "ENOENT", typ |-> "none"]
    ELSE IF w.kind = "linkloop" THEN [err |-> "ELOOP", typ |-> "none"]
    ELSE [err |-> "ok", typ |-> StatType(w.kind)]

\* os.Stat(p)
OsStat(d, p) == StatResult(WalkFrom(d, Components(p), 1, ""))

\* the result of os.Open for the resolution w of path p: a read-only open
\* also needs read permission, and a socket or device cannot be opened
OpenResult(w, p) ==
    IF StatResult(w).err # "ok" THEN [err |-> StatResult(w).err, path |-> p, typ |-> "none"]
    ELSE IF w.kind = "dirnoperm" THEN [err |-> "EACCES", path |-> p, typ |-> "none"]
    ELSE IF w.kind = "other" THEN [err |-> "ENXIO", path |-> p, typ |-> "none"]
    ELSE [err |-> "ok", path |-> p, typ |-> StatResult(w).typ]

\* os.Open(p)
OsOpen(d, p) == OpenResult(WalkFrom(d, Components(p), 1, ""), p)

IsNotExist(e) == e \in {"ENOENT", "ErrNotExist"}
IsPermission(e) == e \in {"EACCES"}

\* net/http mapOpenError: an error that is neither not-exist nor permission
\* becomes fs.ErrNotExist when a component of the path is not a directory;
\* s is the os.Stat of the components up to st[i]
RECURSIVE MapWalk(_, _, _, _, _)
RECURSIVE MapStep(_, _, _, _, _, _)
MapStep(d, e, st, i, node, s) ==
    IF s.err # "ok" THEN e
    ELSE IF s.typ # "dir" THEN "ErrNotExist"
    ELSE MapWalk(d, e, st, i + 1, node)

MapWalk(d, e, st, i, cur) ==
    IF i > Len(st) THEN e
    ELSE MapStep(d, e, st, i, cur \o "/" \o st[i],
                 StatResult(WalkFrom(d, SubSeq(st, 1, i), 1, "")))

mapOpenError(d, e, fullName) ==
    IF IsNotExist(e) \/ IsPermission(e) THEN e
    ELSE MapWalk(d, e, Components(fullName), 1, "")

\* the File or the mapped error http.Dir.Open returns for os.Open's result f
DirResult(d, f) ==
    IF f.err # "ok"
    THEN [err |-> mapOpenError(d, f.err, f.path), path |-> f.path, typ |-> "none"]
    ELSE f

\* http.Dir(source).Open(name)
DirOpen(d, source, name) ==
    DirResult(d, OsOpen(d, Clean(source \o "/" \o Clean("/" \o name))))

\* the entries of directory p
ChildNames(d, p) == {n \in EntryNames(p) : d[p \o "/" \o n] # "absent"}

\* the orders in which a directory of these names can be enumerated
Orders(S) == {o \in [1..Cardinality(S) -> S] : \A i, j \in DOMAIN o : i # j => o[i] # o[j]}

\* File.Readdir(0) on an open file f, enumerating in order ord
Readdir(d, f, ord) ==
    IF f.typ # "dir" THEN [err |-> "ENOTDIR", names |-> <<>>]
    ELSE [err |-> "ok", names |-> ord]

\* ord is an order in which Readdir can return the entries of f; a request
\* that enumerates nothing has the empty order
OrderOf(d, f, ord) ==
    IF f.err = "ok" /\ f.typ = "dir" THEN ord \in Orders(ChildNames(d, f.path))
    ELSE ord = <<>>

-----------------------------------------------------------------------------
(* fileSystem.Open *)

PathJoin(elems) == Clean(JoinElems(elems))

NoFile == [err |-> "ok", mem |-> FALSE, name |-> "", body |-> "", path |-> "",
           typ |-> "none", synth |-> FALSE, ordOk |-> TRUE]

OpenError(e, synth) == [NoFile EXCEPT !.err = e, !.synth = synth]

\* inMemoryFile{strings.NewReader(body), name}
inMemoryFile(body, name) ==
    [NoFile EXCEPT !.mem = TRUE, !.name = name, !.body = body, !.typ = "regular",
                   !.synth = TRUE]

\* a file opened by filesystem.Source.Open
RealFile(f) == [NoFile EXCEPT !.err = f.err, !.path = f.path, !.typ = f.typ]

\* info.IsDir() of the root listing, info.Mode().IsRegular() of the directory
\* listing
\* a selection that takes every entry that is not a directory for a file
SelectedNotDir(typ, wantDirs) == IF wantDirs THEN typ = "dir" ELSE typ # "dir"

Selected(typ, wantDirs) == IF wantDirs THEN typ = "dir" ELSE typ = "regular"

\* the loop over Readdir's entries: a symbolic link is replaced by the os.Stat
\* of path.Join(source, dir, name); the first failing os.Stat ends the loop
\* with its error; a selected entry is written with Fprintln
RECURSIVE ListLoop(_, _, _, _, _, _, _, _)
RECURSIVE ListStep(_, _, _, _, _, _, _, _, _, _)

\* a loop that classifies a symbolic link without following it
ListStepLstat(d, dirPath, source, dir, names, i, result, wantDirs, lst, st) ==
    ListLoop(d, dirPath, source, dir, names, i + 1,
             IF Selected(lst, wantDirs) THEN result \o names[i] \o "\n" ELSE result,
             wantDirs)

\* a loop that leaves out a symbolic link os.Stat fails on
ListStepSkips(d, dirPath, source, dir, names, i, result, wantDirs, lst, st) ==
    ListLoop(d, dirPath, source, dir, names, i + 1,
             IF (lst = "symlink" => st.err = "ok")
                /\ Selected(IF lst = "symlink" THEN st.typ ELSE lst, wantDirs)
             THEN result \o names[i] \o "\n"
             ELSE result,
             wantDirs)

\* a loop that answers a failing os.Stat with an error of its own
ListStepOwnError(d, dirPath, source, dir, names, i, result, wantDirs, lst, st) ==
    IF lst = "symlink" /\ st.err # "ok" THEN [err |-> "EIO", body |-> ""]
    ELSE ListLoop(d, dirPath, source, dir, names, i + 1,
                  IF Selected(IF lst = "symlink" THEN st.typ ELSE lst, wantDirs)
                  THEN result \o names[i] \o "\n"
                  ELSE result,
                  wantDirs)

ListStep(d, dirPath, source, dir, names, i, result, wantDirs, lst, st) ==
    IF lst = "symlink" /\ st.err # "ok" THEN [err |-> st.err, body |-> ""]
    ELSE ListLoop(d, dirPath, source, dir, names, i + 1,
                  IF Selected(IF lst = "symlink" THEN st.typ ELSE lst, wantDirs)
                  THEN result \o names[i] \o "\n"
                  ELSE result,
                  wantDirs)

ListLoop(d, dirPath, source, dir, names, i, result, wantDirs) ==
    IF i > Len(names) THEN [err |-> "ok", body |-> result]
    ELSE ListStep(d, dirPath, source, dir, names, i, result, wantDirs,
                  LstatType(KindAt(d, dirPath \o "/" \o names[i])),
                  OsStat(d, PathJoin(<<source, dir, names[i]>>)))

\* a result in which the synthetic resource lists itself
ListResultSelf(l, memName) ==
    IF l.err # "ok" THEN OpenError(l.err, TRUE)
    ELSE inMemoryFile(l.body \o memName \o "\n", memName)

\* what Open returns for the outcome l of the loop
ListResult(l, memName) ==
    IF l.err # "ok" THEN OpenError(l.err, TRUE) ELSE inMemoryFile(l.body, memName)

\* the synthetic listing of the opened directory f: Readdir(0), the loop, and
\* the in-memory file called memName
ListingOf(d, f, source, dir, ord, wantDirs, memName) ==
    [(IF f.err # "ok" THEN OpenError(f.err, TRUE)
      ELSE IF Readdir(d, f, ord).err # "ok" THEN OpenError(Readdir(d, f, ord).err, TRUE)
      ELSE ListResult(ListLoop(d, f.path, source, dir, ord, 1, "", wantDirs), memName))
     EXCEPT !.ordOk = OrderOf(d, f, ord)]

\* the synthetic listing of directory dir under the source, opened with
\* Source.Open(openArg)
Listing(d, source, openArg, dir, ord, wantDirs, memName) ==
    ListingOf(d, DirOpen(d, source, openArg), source, dir, ord, wantDirs, memName)

\* name[len(filesystem.Root)-1:]
StripRoot(fsys, name) == SubSeq(name, Len(fsys.Root), Len(name))

\* an Open that does not test SubDirs before the root listing
OpenStrippedAnyIndexed(d, fsys, n, sp, ord) ==
    IF fsys.Indexed /\ n = "/.index-dirs"
    THEN Listing(d, fsys.Source, ".", "", ord, TRUE, ".index-dirs")
    ELSE IF fsys.Indexed /\ sp.base = ".index"
    THEN Listing(d, fsys.Source, sp.dir, sp.dir, ord, FALSE, ".index")
    ELSE [RealFile(DirOpen(d, fsys.Source, n)) EXCEPT !.ordOk = (ord = <<>>)]

\* the three ways of Open for the stripped name n, which path.Split splits
\* into sp
OpenStripped(d, fsys, n, sp, ord) ==
    IF fsys.Indexed /\ fsys.SubDirs /\ n = "/.index-dirs"
    THEN Listing(d, fsys.Source, ".", "", ord, TRUE, ".index-dirs")
    ELSE IF fsys.Indexed /\ sp.base = ".index"
    THEN Listing(d, fsys.Source, sp.dir, sp.dir, ord, FALSE, ".index")
    ELSE [RealFile(DirOpen(d, fsys.Source, n)) EXCEPT !.ordOk = (ord = <<>>)]

\* (filesystem *fileSystem) Open(name); ord is the order in which the
\* directory it enumerates, if any, is read
Open(d, fsys, name, ord) ==
    IF Len(name) < Len(fsys.Root) - 1
    THEN [OpenError("panic", FALSE) EXCEPT !.ordOk = (ord = <<>>)]
    ELSE OpenStripped(d, fsys, StripRoot(fsys, name),
                      PathSplit(StripRoot(fsys, name)), ord)

-----------------------------------------------------------------------------
(* newReverseProxy, newServer *)

proxyURL == [Scheme |-> retroarchScheme, Host |-> retroarchHostName, Path |-> retroarchPath]

\* net/http/httputil singleJoiningSlash, as joinURLPath applies it to paths
\* without escaped characters
singleJoiningSlash(a, b) ==
    LET aslash == HasSuffix(a, "/")
        bslash == HasPrefix(b, "/")
    IN  IF aslash /\ bslash THEN a \o SubSeq(b, 2, Len(b))
        ELSE IF ~aslash /\ ~bslash THEN a \o "/" \o b
        ELSE a \o b

\* the Director of httputil.NewSingleHostReverseProxy(target): the outbound
\* request keeps the Host of the inbound one
director(target, req) ==
    [Scheme |-> target.Scheme, URLHost |-> target.Host,
     Path |-> singleJoiningSlash(target.Path, req.Path), Host |-> req.Host]

\* a Director that leaves the Host of the inbound request in place
directorKeepsHost(target, req) == director(target, req)

\* proxy.Director of newReverseProxy(target)
proxyDirector(target, req) ==
    [director(target, req) EXCEPT !.Host = target.Host]

NoHandler == [kind |-> "none"]

newReverseProxy(target) == [kind |-> "proxy", target |-> target]

FileServer(fsys) == [kind |-> "local", fs |-> fsys]

\* the handler newServer mounts for category c given its path argument
Mount(c, dir) ==
    IF dir = "" THEN newReverseProxy(proxyURL)
    ELSE FileServer([Indexed |-> c # "frontend", SubDirs |-> c = "rom",
                     Root |-> Prefix(c), Source |-> dir])

\* a newServer that tests the system path where it should test the rom path
newServerTestsSystem(frontend, system, rom) ==
    [c \in Categories |->
        CASE c = "frontend" -> Mount(c, frontend)
          [] c = "system"   -> Mount(c, system)
          [] c = "rom"      -> IF system = "" THEN Mount(c, "") ELSE Mount(c, rom)]

\* newServer(listen, frontend, system, rom): the handlers by category
newServer(frontend, system, rom) ==
    [c \in Categories |->
        CASE c = "frontend" -> Mount(c, frontend)
          [] c = "system"   -> Mount(c, system)
          [] c = "rom"      -> Mount(c, rom)]

-----------------------------------------------------------------------------
(* Serving a request: http.ServeMux, http.FileServer, httputil.ReverseProxy *)

NoResp == [cat |-> "none", path |-> "", status |-> 0, kind |-> "none",
           open |-> NoFile, body |-> "", method |-> "GET", name |-> ""]

\* net/http cleanPath: path.Clean that keeps a trailing slash
cleanPath(p) ==
    IF p = "" THEN "/"
    ELSE LET np == CleanOf(p)
         IN  IF HasSuffix(p, "/") /\ np # "/" THEN np \o "/" ELSE np

\* the category whose pattern is a prefix of p (the patterns are disjoint)
Matching(p) == {c \in Categories : HasPrefix(p, Prefix(c))}

\* ServeMux.Handler: a redirect to the cleaned path or to the pattern with its
\* trailing slash, the handler of the matching pattern, or NotFound
muxHandler(p) ==
    LET cp == cleanPath(p)
    IN  IF (\E c \in Categories : cp \o "/" = Prefix(c)) \/ cp # p THEN "redirect"
        ELSE IF Matching(p) = {} THEN "notfound"
        ELSE CHOOSE c \in Matching(p) : TRUE

Route == [p \in RawPaths |-> muxHandler(p)]

\* ServeMux.Handler for a CONNECT request: the path is not cleaned; only the
\* redirect to the pattern with its trailing slash applies
connectHandler(p) ==
    IF \E c \in Categories : p \o "/" = Prefix(c) THEN "redirect"
    ELSE IF Matching(p) = {} THEN "notfound"
    ELSE CHOOSE c \in Matching(p) : TRUE

RouteConnect == [p \in ConnectPaths |-> connectHandler(p)]

\* net/http toHTTPError
toHTTPError(e) ==
    IF IsNotExist(e) THEN 404 ELSE IF IsPermission(e) THEN 403 ELSE 500

\* index.html in the directory called name
indexPage(name) ==
    (IF HasSuffix(name, "/") THEN SubSeq(name, 1, Len(name) - 1) ELSE name)
        \o "/index.html"

\* serveFile once name has been opened as f, and name's index.html as ff
serveOpened(r, upath, f, ff) ==
    IF f.err = "panic"
    THEN [r EXCEPT !.kind = "panic", !.open = f]
    ELSE IF f.err # "ok"
    THEN [r EXCEPT !.status = toHTTPError(f.err), !.kind = "error", !.open = f]
    ELSE IF (f.typ = "dir") # HasSuffix(upath, "/")
    THEN [r EXCEPT !.status = 301, !.kind = "redirect", !.open = f]
    ELSE IF f.typ = "dir" /\ ff.err = "ok" /\ ff.typ # "dir"
    THEN [r EXCEPT !.status = 200, !.kind = "file", !.open = ff,
                   !.body = IF ff.mem THEN ff.body ELSE ff.path]
    ELSE IF f.typ = "dir"
    THEN [r EXCEPT !.status = 200, !.kind = "dirlist", !.open = f]
    ELSE [r EXCEPT !.status = 200, !.kind = IF f.mem THEN "listing" ELSE "file",
                   !.open = f, !.body = IF f.mem THEN f.body ELSE f.path]

\* serveFile(w, r, fs, name, true) for the request path upath
serveName(d, c, fsys, upath, name, ord) ==
    IF HasSuffix(upath, "/index.html")
    THEN [NoResp EXCEPT !.cat = c, !.path = upath, !.status = 301, !.kind = "redirect"]
    ELSE serveOpened([NoResp EXCEPT !.cat = c, !.path = upath, !.name = name], upath,
                     Open(d, fsys, name, ord),
                     Open(d, fsys, indexPage(name), <<>>))

\* http.FileServer(fsys).ServeHTTP for the URL path upath, reading the
\* directory Open enumerates in order ord
serveFile(d, c, fsys, upath, ord) == serveName(d, c, fsys, upath, Clean(upath), ord)

\* the statuses the origin may answer with; 502 is a transport failure
Upstream == {200, 404, 502}

\* httputil.ReverseProxy.ServeHTTP: the outbound request
proxyOut(h, upath, host) == proxyDirector(h.target, [Path |-> upath, Host |-> host])

-----------------------------------------------------------------------------
(* Requests *)

Hosts == {"localhost:5164", "evil.example"}

\* the orders in which some directory of d can be enumerated
AllOrders(d) ==
    {<<>>} \cup Orders(ChildNames(d, LocalDir)) \cup Orders(ChildNames(d, SubDir))

Accepting == srv = "serving" /\ ~inShutdown

\* ServeMux answers itself: a redirect to the cleaned path or to the pattern
\* with its trailing slash, or 404 when no pattern matches
ServeMux(p) ==
    /\ Accepting
    /\ Route[p] \in {"redirect", "notfound"}
    /\ resp' = IF Route[p] = "redirect"
               THEN [NoResp EXCEPT !.path = p, !.status = 301, !.kind = "redirect"]
               ELSE [NoResp EXCEPT !.path = p, !.status = 404, !.kind = "notfound"]
    /\ outbound' = <<>>
    /\ UNCHANGED <<lifeVars, disk>>

\* a request routed to a category served from its local directory
ServeLocal(p, c) ==
    /\ Accepting
    /\ Route[p] = c
    /\ mux[c].kind = "local"
    /\ \E ord \in AllOrders(disk) :
          /\ resp' = serveFile(disk, c, mux[c].fs, p, ord)
          /\ resp'.open.ordOk
    /\ outbound' = <<>>
    /\ UNCHANGED <<lifeVars, disk>>

\* a request routed to a category served by the reverse proxy
ServeProxy(p, c, host, up) ==
    /\ Accepting
    /\ Route[p] = c
    /\ mux[c].kind = "proxy"
    /\ outbound' = <<proxyOut(mux[c], p, host)>>
    /\ resp' = [NoResp EXCEPT !.cat = c, !.path = p, !.status = up, !.kind = "proxy"]
    /\ UNCHANGED <<lifeVars, disk>>

\* a CONNECT request: answered by ServeMux, or handed to the handler of the
\* category whose pattern is a prefix of the path as it was sent
ServeConnect(p, host, up) ==
    /\ Accepting
    /\ LET h == RouteConnect[p]
       IN  IF h \in {"redirect", "notfound"}
           THEN /\ resp' = [NoResp EXCEPT !.path = p, !.method = "CONNECT",
                                          !.status = IF h = "redirect" THEN 301 ELSE 404,
                                          !.kind = h]
                /\ outbound' = <<>>
           ELSE IF mux[h].kind = "proxy"
           THEN /\ outbound' = <<proxyOut(mux[h], p, host)>>
                /\ resp' = [NoResp EXCEPT !.cat = h, !.path = p, !.method = "CONNECT",
                                          !.status = up, !.kind = "proxy"]
           ELSE /\ \E ord \in AllOrders(disk) :
                      /\ resp' = [serveFile(disk, h, mux[h].fs, p, ord)
                                    EXCEPT !.method = "CONNECT"]
                      /\ resp'.open.ordOk
                /\ outbound' = <<>>
    /\ UNCHANGED <<lifeVars, disk>>

-----------------------------------------------------------------------------
(* The filesystem changes under the server *)

Present(d) == {n \in Nodes \ {LocalDir} : d[n] # "absent"}

ValidDisk(d) ==
    /\ d[LocalDir] = "dir"
    /\ Cardinality(Present(d)) <= MaxEntries
    /\ \A n \in SubNodes : d[n] # "absent" => d[SubDir] \in Traversable

EmptyDisk == [n \in Nodes |-> IF n = LocalDir THEN "dir" ELSE "absent"]

FsChange(n, k) ==
    /\ n # LocalDir
    /\ k # disk[n]
    /\ ValidDisk([disk EXCEPT ![n] = k])
    /\ disk' = [disk EXCEPT ![n] = k]
    /\ resp' = NoResp
    /\ outbound' = <<>>
    /\ UNCHANGED lifeVars

-----------------------------------------------------------------------------
(* Startup and shutdown: serveCommand.Run under main, windowsService.Execute *)

ListenArgs == {"", ":8080", "bogus"}

\* net.ResolveTCPAddr("tcp", s)
ResolveTCPAddr(s) ==
    IF s \in {":8080", defaultListen} THEN [err |-> "ok", addr |-> s]
    ELSE [err |-> "unknown port", addr |-> ""]

\* a Parse that keeps the default address when -listen does not resolve
ParseFlagsLenient(c, a) ==
    [err |-> "ok",
     cfg |-> [listen |-> IF a.listen # "" /\ ResolveTCPAddr(a.listen).err = "ok"
                         THEN ResolveTCPAddr(a.listen).addr ELSE c.listen,
              frontend |-> a.frontend, system |-> a.system, rom |-> a.rom]]

\* cli.Parse of the -listen, -frontend, -system and -rom options into c
ParseFlags(c, a) ==
    LET ep == ResolveTCPAddr(a.listen)
    IN  IF a.listen # "" /\ ep.err # "ok" THEN [err |-> ep.err, cfg |-> c]
        ELSE [err |-> "ok",
              cfg |-> [listen |-> IF a.listen # "" THEN ep.addr ELSE c.listen,
                       frontend |-> a.frontend, system |-> a.system, rom |-> a.rom]]

\* what ListenAndServe returns once it has been serving
ServeError == IF inShutdown THEN "ErrServerClosed" ELSE "accept"

\* the value serveCommand.Run returns for ListenAndServe's error
RunResult(err) == IF err = "ErrServerClosed" THEN "nil" ELSE err

\* main's exit status for the value Run returned
ExitCode(ret) == IF ret = "nil" THEN 0 ELSE 2

\* a report of every error, the server-closed one included
ShouldLogAnyError(err) == err # "nil"

\* the goroutine of Execute reports ListenAndServe's error to the event log
ShouldLog(err) == err # "nil" /\ err # "ErrServerClosed"

Logged(err) == IF ShouldLog(err) THEN elog \cup {"HTTP server error"} ELSE elog

NoOutcome == [ret |-> "none", exit |-> -1]

\* serveCommand.Run up to the point where ListenAndServe blocks in Accept, or
\* through its return when the options are wrong or the address cannot be bound
RunStart(bindOk) ==
    /\ mode = "serve" /\ pc = "start"
    /\ LET pr == ParseFlags(cfg, args)
       IN  IF pr.err # "ok"
           THEN /\ pc' = "exited"
                /\ outcome' = [ret |-> "none", exit |-> 2]
                /\ elog' = elog \cup {"invalid value for flag"}
                /\ UNCHANGED <<cfg, mux, srv, lasErr>>
           ELSE IF args.extra
           THEN /\ pc' = "exited"
                /\ outcome' = [ret |-> "none", exit |-> 1]
                /\ elog' = elog \cup {"Unknown argument"}
                /\ cfg' = pr.cfg
                /\ UNCHANGED <<mux, srv, lasErr>>
           ELSE /\ cfg' = pr.cfg
                /\ mux' = newServer(pr.cfg.frontend, pr.cfg.system, pr.cfg.rom)
                /\ IF bindOk
                   THEN /\ srv' = "serving"
                        /\ pc' = "running"
                        /\ UNCHANGED <<lasErr, outcome, elog>>
                   ELSE /\ srv' = "returned"
                        /\ lasErr' = "bind"
                        /\ outcome' = [ret |-> RunResult("bind"),
                                       exit |-> ExitCode(RunResult("bind"))]
                        /\ elog' = elog \cup {RunResult("bind")}
                        /\ pc' = "exited"
    /\ resp' = NoResp /\ outbound' = <<>>
    /\ UNCHANGED <<mode, args, inShutdown, svcStatus, ctxDone, disk>>

\* ListenAndServe returns in serveCommand.Run, Run returns and main exits
RunEnd ==
    /\ mode = "serve" /\ pc = "running" /\ srv = "serving"
    /\ srv' = "returned"
    /\ lasErr' = ServeError
    /\ outcome' = [ret |-> RunResult(ServeError), exit |-> ExitCode(RunResult(ServeError))]
    /\ elog' = IF RunResult(ServeError) = "nil" THEN elog
               ELSE elog \cup {RunResult(ServeError)}
    /\ pc' = "exited"
    /\ resp' = NoResp /\ outbound' = <<>>
    /\ UNCHANGED <<mode, args, cfg, mux, inShutdown, svcStatus, ctxDone, disk>>

\* Execute from its entry to the control loop
ExecuteStart ==
    /\ mode = "service" /\ pc = "start"
    /\ LET pr == ParseFlags(cfg, args)
           c1 == IF pr.cfg.listen = "" THEN [pr.cfg EXCEPT !.listen = defaultListen]
                 ELSE pr.cfg
       IN  IF pr.err # "ok" \/ args.svcBad
           THEN /\ elog' = elog \cup {IF pr.err # "ok" THEN "Internal error"
                                      ELSE "Invalid options"}
                /\ svcStatus' = "Stopped"
                /\ outcome' = [ret |-> "true,1", exit |-> -1]
                /\ pc' = "returned"
                /\ cfg' = pr.cfg
                /\ UNCHANGED <<mux, srv>>
           ELSE /\ cfg' = c1
                /\ mux' = newServer(c1.frontend, c1.system, c1.rom)
                /\ srv' = "built"
                /\ svcStatus' = "Running"
                /\ pc' = "loop"
                /\ UNCHANGED <<elog, outcome>>
    /\ resp' = NoResp /\ outbound' = <<>>
    /\ UNCHANGED <<mode, args, inShutdown, lasErr, ctxDone, disk>>

\* the goroutine of Execute calls ListenAndServe, which starts serving, or
\* returns at once; when it returns the goroutine logs and calls cancel
GoStart(bindOk) ==
    /\ mode = "service" /\ srv = "built"
    /\ LET err == IF inShutdown THEN "ErrServerClosed" ELSE "bind"
       IN  IF bindOk /\ ~inShutdown
           THEN /\ srv' = "serving"
                /\ UNCHANGED <<lasErr, elog, ctxDone>>
           ELSE /\ srv' = "returned"
                /\ lasErr' = err
                /\ elog' = Logged(err)
                /\ ctxDone' = TRUE
    /\ resp' = NoResp /\ outbound' = <<>>
    /\ UNCHANGED <<mode, args, pc, cfg, mux, inShutdown, outcome, svcStatus, disk>>

\* ListenAndServe returns in the goroutine of Execute
GoEnd ==
    /\ mode = "service" /\ srv = "serving"
    /\ srv' = "returned"
    /\ lasErr' = ServeError
    /\ elog' = Logged(ServeError)
    /\ ctxDone' = TRUE
    /\ resp' = NoResp /\ outbound' = <<>>
    /\ UNCHANGED <<mode, args, pc, cfg, mux, inShutdown, outcome, svcStatus, disk>>

Controls == {"Interrogate", "Stop", "Shutdown", "Pause"}

\* a loop that reports StopPending without calling server.Shutdown
ControlNoShutdown(c) ==
    /\ mode = "service" /\ pc = "loop"
    /\ CASE c = "Interrogate" -> UNCHANGED <<inShutdown, svcStatus, elog>>
         [] c \in {"Stop", "Shutdown"} ->
                /\ svcStatus' = "StopPending"
                /\ UNCHANGED <<inShutdown, elog>>
         [] OTHER ->
                /\ elog' = elog \cup {"unexpected control request"}
                /\ UNCHANGED <<inShutdown, svcStatus>>
    /\ resp' = NoResp /\ outbound' = <<>>
    /\ UNCHANGED <<mode, args, pc, cfg, mux, srv, lasErr, outcome, ctxDone, disk>>

\* one control request taken from r in the loop of Execute
Control(c) ==
    /\ mode = "service" /\ pc = "loop"
    /\ CASE c = "Interrogate" -> UNCHANGED <<inShutdown, svcStatus, elog>>
         [] c \in {"Stop", "Shutdown"} ->
                /\ inShutdown' = TRUE
                /\ svcStatus' = "StopPending"
                /\ UNCHANGED elog
         [] OTHER ->
                /\ elog' = elog \cup {"unexpected control request"}
                /\ UNCHANGED <<inShutdown, svcStatus>>
    /\ resp' = NoResp /\ outbound' = <<>>
    /\ UNCHANGED <<mode, args, pc, cfg, mux, srv, lasErr, outcome, ctxDone, disk>>

\* ctxt.Done() is taken in the loop of Execute, which returns (false, 0)
LoopExit ==
    /\ mode = "service" /\ pc = "loop" /\ ctxDone
    /\ svcStatus' = "StopPending"
    /\ outcome' = [ret |-> "false,0", exit |-> 0]
    /\ pc' = "returned"
    /\ resp' = NoResp /\ outbound' = <<>>
    /\ UNCHANGED <<mode, args, cfg, mux, srv, inShutdown, lasErr, elog, ctxDone, disk>>

-----------------------------------------------------------------------------
(* Specifications *)

\* the local root as the operator may have left it
Fixtures ==
    {[EmptyDisk EXCEPT ![SubDir] = "dir", ![SubDir \o "/.index-dirs"] = "file",
                       ![LocalDir \o "/.index"] = "file"],
     [EmptyDisk EXCEPT ![SubDir] = "dangling",
                       ![LocalDir \o "/.index-dirs"] = "linkfile"],
     [EmptyDisk EXCEPT ![LocalDir] = "absent"],
     [EmptyDisk EXCEPT ![LocalDir] = "file"],
     [EmptyDisk EXCEPT ![LocalDir] = "dirnoperm"]}

Dirs == {"", LocalDir}

ArgSets ==
    [listen : ListenArgs, frontend : Dirs, system : Dirs, rom : Dirs,
     extra : BOOLEAN, svcBad : BOOLEAN]

Init ==
    /\ mode \in {"serve", "service"}
    /\ args \in ArgSets
    /\ mode = "serve" => ~args.svcBad
    /\ mode = "service" => ~args.extra
    /\ pc = "start"
    /\ cfg = [listen |-> IF mode = "serve" THEN defaultListen ELSE "",
              frontend |-> "", system |-> "", rom |-> ""]
    /\ mux = [c \in Categories |-> NoHandler]
    /\ srv = "none"
    /\ inShutdown = FALSE
    /\ lasErr = "none"
    /\ outcome = NoOutcome
    /\ elog = {}
    /\ svcStatus = "none"
    /\ ctxDone = FALSE
    /\ disk \in Fixtures
    /\ resp = NoResp
    /\ outbound = <<>>

Next ==
    \/ \E b \in BOOLEAN : RunStart(b)
    \/ RunEnd
    \/ ExecuteStart
    \/ \E b \in BOOLEAN : GoStart(b)
    \/ GoEnd
    \/ \E c \in Controls : Control(c)
    \/ LoopExit
    \/ \E p \in RawPaths : ServeMux(p)
    \/ \E p \in RawPaths, c \in Categories : ServeLocal(p, c)
    \/ \E p \in RawPaths, c \in Categories, h \in Hosts, u \in Upstream :
          ServeProxy(p, c, h, u)
    \/ \E p \in ConnectPaths, h \in Hosts, u \in Upstream : ServeConnect(p, h, u)

Spec == Init /\ [][Next]_vars

\* the scheduling the service rests on: the goroutine of Execute runs, so
\* ListenAndServe is called; ListenAndServe returns once Shutdown has been
\* called; and the select of the loop takes ctxt.Done() when it is ready
Fairness ==
    /\ WF_vars(\E b \in BOOLEAN : GoStart(b))
    /\ WF_vars(inShutdown /\ GoEnd)
    /\ WF_vars(LoopExit)

SpecLive == Spec /\ Fairness

\* the server of `serve -frontend /r -system /r -rom /r`, serving, over a
\* local root whose content changes between requests
InitFS ==
    /\ mode = "serve"
    /\ args = [listen |-> "", frontend |-> LocalDir, system |-> LocalDir,
               rom |-> LocalDir, extra |-> FALSE, svcBad |-> FALSE]
    /\ pc = "running"
    /\ cfg = [listen |-> defaultListen, frontend |-> LocalDir, system |-> LocalDir,
              rom |-> LocalDir]
    /\ mux = newServer(LocalDir, LocalDir, LocalDir)
    /\ srv = "serving"
    /\ inShutdown = FALSE
    /\ lasErr = "none"
    /\ outcome = NoOutcome
    /\ elog = {}
    /\ svcStatus = "none"
    /\ ctxDone = FALSE
    /\ disk = EmptyDisk
    /\ resp = NoResp
    /\ outbound = <<>>

NextFS ==
    \/ \E n \in Nodes, k \in AllKinds : FsChange(n, k)
    \/ \E p \in RawPaths : ServeMux(p)
    \/ \E p \in RawPaths, c \in Categories : ServeLocal(p, c)

SpecFS == InitFS /\ [][NextFS]_vars

\* the same server answering requests of every method
NextAny ==
    \/ \E n \in Nodes, k \in AllKinds : FsChange(n, k)
    \/ \E p \in RawPaths : ServeMux(p)
    \/ \E p \in RawPaths, c \in Categories : ServeLocal(p, c)
    \/ \E p \in ConnectPaths, h \in Hosts, u \in Upstream : ServeConnect(p, h, u)

SpecAny == InitFS /\ [][NextAny]_vars

-----------------------------------------------------------------------------
(* Properties *)

\* the path argument given for category c on the command line
ArgPath(c) ==
    CASE c = "frontend" -> args.frontend
      [] c = "system"   -> args.system
      [] c = "rom"      -> args.rom

Constructed == srv # "none"

\* C1: once newServer has run, each category has exactly one handler, the
\* local file server if and only if its own path argument is non-empty and
\* the reverse proxy if and only if it is empty; the arguments never change,
\* so no later step changes the choice.
C1_OneHandlerPerCategory ==
    Constructed =>
        \A c \in Categories :
            /\ mux[c].kind \in {"local", "proxy"}
            /\ mux[c].kind = "local" <=> ArgPath(c) # ""
            /\ mux[c].kind = "proxy" <=> ArgPath(c) = ""
            /\ mux[c].kind = "local" =>
                  /\ mux[c].fs.Root = Prefix(c)
                  /\ mux[c].fs.Source = ArgPath(c)

\* a request was answered from the local rom directory although the system
\* category is proxied
C1_Witness ==
    /\ mux["rom"].kind = "local"
    /\ mux["system"].kind = "proxy"
    /\ mux["frontend"].kind = "proxy"
    /\ resp.cat = "rom"
    /\ resp.status = 200

\* the one outbound request a proxied request for P must give rise to
Forwarded(P) ==
    /\ Len(outbound) = 1
    /\ outbound[1].Scheme = "http"
    /\ outbound[1].URLHost = "buildbot.libretro.com"
    /\ outbound[1].Path = "/assets" \o P
    /\ outbound[1].Host = "buildbot.libretro.com"

\* the categories under whose prefix the path lies
Under(P) == {c \in Categories : HasPrefix(P, Prefix(c))}

-----------------------------------------------------------------------------
(* Properties of the local file server *)

\* the last request was answered by the file server of a local category
LocalAnswer == resp.cat # "none" /\ mux[resp.cat].kind = "local"

\* the request path below the category's prefix
Below == SubSeq(resp.path, Len(Prefix(resp.cat)) + 1, Len(resp.path))

\* the two positions fileSystem.Open is to intercept
DirsRequest == resp.cat = "rom" /\ resp.path = "/cores/.index-dirs"
IndexRequest == resp.cat \in {"system", "rom"} /\ HasSuffix(resp.path, "/.index")
Intercepted == DirsRequest \/ IndexRequest

\* the node of the disk a relative name stands for
NodeOf(rel) == IF rel = "" THEN LocalDir ELSE LocalDir \o "/" \o rel

\* the directory a listing request enumerates
ListedDir ==
    IF DirsRequest THEN LocalDir
    ELSE NodeOf(SubSeq(Below, 1, Len(Below) - Len("/.index")))

DiskKind(n) == IF n \in Nodes THEN disk[n] ELSE "absent"

Readable(n) == DiskKind(n) \in {"dir", "linkdir"}

Unresolved(n) == {c \in ChildNames(disk, n) : disk[n \o "/" \o c] \in {"dangling", "linkloop"}}

\* the children of directory n of the given kinds
ChildrenOfKind(n, ks) == {c \in ChildNames(disk, n) : disk[n \o "/" \o c] \in ks}

\* the newline-terminated lines of a body
RECURSIVE LinesOf(_, _, _)
LinesOf(b, i, start) ==
    IF i > Len(b) THEN <<>>
    ELSE IF SubSeq(b, i, i) = "\n"
    THEN <<SubSeq(b, start, i - 1)>> \o LinesOf(b, i + 1, i + 1)
    ELSE LinesOf(b, i + 1, start)

Lines == LinesOf(resp.body, 1, 1)
ListedNames == {Lines[i] : i \in 1..Len(Lines)}
Terminated == resp.body = "" \/ HasSuffix(resp.body, "\n")

\* the response is a successful listing of exactly the names of S
ListsExactly(S) ==
    /\ resp.status = 200
    /\ resp.kind = "listing"
    /\ Terminated
    /\ ListedNames = S
    /\ Len(Lines) = Cardinality(S)

\* C3: Open answers with a synthetic resource exactly for /.index-dirs at
\* the root of the rom category and for a name whose last element is .index
\* in the system and rom categories, and opens the file of the source in
\* every other case; in an intercepted position the real file of that name
\* is never what is served.
C3_InterceptsExactly ==
    LocalAnswer =>
        /\ resp.open.synth <=> Intercepted
        /\ DirsRequest /\ resp.open.err = "ok" =>
              resp.open.mem /\ resp.open.name = ".index-dirs"
        /\ IndexRequest /\ ~DirsRequest /\ resp.open.err = "ok" =>
              resp.open.mem /\ resp.open.name = ".index"
        /\ Intercepted => resp.kind \in {"listing", "error"}
        /\ ~Intercepted => ~resp.open.mem
        /\ ~Intercepted /\ resp.kind = "file" => resp.body = NodeOf(Below)

\* the rom root holds a real file called .index-dirs and the request for it
\* is answered with the synthetic listing
C3_Witness ==
    /\ LocalAnswer
    /\ DirsRequest
    /\ disk[LocalDir \o "/.index-dirs"] = "file"
    /\ resp.kind = "listing"
    /\ resp.open.name = ".index-dirs"

\* C4: in an indexed category, for a directory D the server can read and
\* in which every symbolic link resolves, the request for D/.index succeeds
\* with one newline-terminated name per entry, the names being exactly the
\* children of D that are regular files or links to regular files; the
\* answer is a function of the directory alone, so a second request against
\* the unmodified directory lists the same set.
C4_IndexListsRegularFiles ==
    (LocalAnswer /\ IndexRequest /\ Readable(ListedDir) /\ Unresolved(ListedDir) = {})
        => ListsExactly(ChildrenOfKind(ListedDir, {"file", "linkfile"}))

\* the root holds a directory and a link to a regular file, and its listing
\* names the link alone
C4_Witness ==
    /\ LocalAnswer
    /\ IndexRequest
    /\ ListedDir = LocalDir
    /\ disk[LocalDir \o "/snes"] = "dir"
    /\ disk[LocalDir \o "/.index"] = "linkfile"
    /\ resp.body = ".index\n"

\* C5: for the local rom category with every top-level symbolic link
\* resolving, the request for /cores/.index-dirs succeeds with one
\* newline-terminated name per entry, the names being exactly the children
\* of the root that are directories or links to directories; files and
\* directories below the first level are not listed.
C5_IndexDirsListsDirectories ==
    (LocalAnswer /\ DirsRequest /\ Unresolved(LocalDir) = {})
        => ListsExactly(ChildrenOfKind(LocalDir, {"dir", "linkdir", "dirnoperm"}))

\* the root's only directory is a link to a directory that holds a
\* directory of its own
C5_Witness ==
    /\ LocalAnswer
    /\ DirsRequest
    /\ disk[LocalDir \o "/snes"] = "linkdir"
    /\ disk[LocalDir \o "/snes/.index-dirs"] = "dir"
    /\ resp.body = "snes\n"

\* C6: when the directory a synthetic listing enumerates holds a symbolic
\* link os.Stat fails on, Open returns an error and no stream: the request
\* fails, with no partial listing, wherever the link comes in the
\* enumeration and whatever the other entries are.
C6_UnresolvedLinkFails ==
    (LocalAnswer /\ Intercepted /\ Readable(ListedDir) /\ Unresolved(ListedDir) # {})
        => /\ resp.open.err # "ok"
           /\ ~resp.open.mem
           /\ resp.kind = "error"
           /\ resp.status # 200
           /\ resp.body = ""

\* the listed root holds a regular file and a dangling link
C6_Witness ==
    /\ LocalAnswer
    /\ IndexRequest
    /\ ListedDir = LocalDir
    /\ disk[LocalDir \o "/.index"] = "file"
    /\ disk[LocalDir \o "/snes"] = "dangling"
    /\ resp.kind = "error"

\* the reserved listing names
Reserved == {".index", ".index-dirs"}

\* C7 as stated: a per-directory listing never contains a reserved listing
\* name, whatever the listed directory holds.
C7_NeverListsReserved ==
    (LocalAnswer /\ IndexRequest /\ resp.kind = "listing")
        => ListedNames \cap Reserved = {}

\* C7: a per-directory listing contains a reserved listing name exactly
\* when the listed directory holds an entry of that name that is a regular
\* file or a link to one; the synthetic resource itself is never an entry.
C7_ListsReservedOnlyIfReal ==
    (LocalAnswer /\ IndexRequest /\ resp.kind = "listing")
        => \A r \in Reserved :
              r \in ListedNames
                  <=> DiskKind(ListedDir \o "/" \o r) \in {"file", "linkfile"}

\* the listed root holds a regular file called .index and the listing names
\* it; the sub-directory holds none and its listing is empty
C7_Witness ==
    /\ LocalAnswer
    /\ IndexRequest
    /\ resp.kind = "listing"
    /\ ListedDir = LocalDir
    /\ disk[LocalDir \o "/.index"] = "file"
    /\ ".index" \in ListedNames

\* the kinds of unresolved link in the enumerated directory
UnresolvedKinds == {disk[ListedDir \o "/" \o c] : c \in Unresolved(ListedDir)}

\* the node a request outside the intercepted positions opens
Target == NodeOf(IF HasSuffix(Below, "/") THEN SubSeq(Below, 1, Len(Below) - 1) ELSE Below)

-----------------------------------------------------------------------------
(* Properties of startup and shutdown *)

\* C9: once ListenAndServe has returned, serveCommand.Run returns nil if
\* and only if the error is the server-closed one and returns any other
\* error as it is, and the service has logged an HTTP server error if and
\* only if the error is neither nil nor the server-closed one.
C9_CleanShutdownIsNoError ==
    /\ (mode = "serve" /\ lasErr # "none") =>
          /\ outcome.ret = "nil" <=> lasErr = "ErrServerClosed"
          /\ lasErr # "ErrServerClosed" => outcome.ret = lasErr
          /\ outcome.exit = 0 <=> lasErr = "ErrServerClosed"
    /\ (mode = "service" /\ lasErr # "none") =>
          ("HTTP server error" \in elog <=> lasErr \notin {"nil", "ErrServerClosed"})

\* the service was stopped while serving: ListenAndServe ended with the
\* server-closed error, nothing was logged and Execute returned (false, 0)
C9_Witness ==
    /\ mode = "service"
    /\ lasErr = "ErrServerClosed"
    /\ "HTTP server error" \notin elog
    /\ outcome.ret = "false,0"

BadListen == args.listen = "bogus"

\* a category is given a local path that is not a directory the server can
\* serve from
UnusablePath == \E c \in Categories : ArgPath(c) # "" /\ disk[ArgPath(c)] # "dir"

-----------------------------------------------------------------------------
(* Properties of the prefix strip *)

\* the category prefix without its trailing slash
Mounted(c) == SubSeq(Prefix(c), 1, Len(Prefix(c)) - 1)

\* name[len(Root)-1:] of the name handed to Open
Stripped == SubSeq(resp.name, Len(Prefix(resp.cat)), Len(resp.name))

\* C11: for every request the multiplexer routes to a local category, the
\* name handed to Open is at least len(Root)-1 long and starts with the
\* category prefix without its trailing slash, so the slice never goes out
\* of range, and the stripped name is empty or starts with "/" and is the
\* request path with the prefix removed.
C11_StripStaysInRange ==
    (LocalAnswer /\ resp.name # "") =>
        /\ resp.kind # "panic"
        /\ Len(resp.name) >= Len(Prefix(resp.cat)) - 1
        /\ HasPrefix(resp.name, Mounted(resp.cat))
        /\ Stripped = "" \/ HasPrefix(Stripped, "/")
        /\ HasPrefix(resp.path, Mounted(resp.cat) \o Stripped)

-----------------------------------------------------------------------------
(* Properties of the service's control loop *)

\* a Stop or Shutdown control request was taken in the loop and answered
\* with StopPending
StopTaken == mode = "service" /\ svcStatus = "StopPending"

\* Execute has left the loop and returned (false, 0)
LeftLoop == mode = "service" /\ pc = "returned" /\ outcome.ret = "false,0"

\* the goroutine's ListenAndServe has returned and cancel was called
ServerDone == srv = "returned" /\ ctxDone

\* C12: in the service, once Running was reported, a Stop or Shutdown
\* control request always leads to Execute leaving its loop and returning
\* (false, 0); so does a ListenAndServe that fails with no control request
\* at all; and Execute never leaves the loop before ListenAndServe has
\* returned and cancel was called, whatever controls come in between.
C12_StopLeadsToReturn ==
    /\ [](LeftLoop => ServerDone)
    /\ StopTaken ~> LeftLoop
    /\ (mode = "service" /\ ServerDone) ~> LeftLoop

\* Execute returned (false, 0) after a Stop, with a control request it does
\* not know taken on the way
C12_Witness ==
    /\ LeftLoop
    /\ StopTaken
    /\ ServerDone
    /\ lasErr = "ErrServerClosed"
    /\ "unexpected control request" \in elog

=============================================================================
